---- MODULE Spec2Model ----
(***************************************************************************)
(* One socketioxide Socket (socketioxide/src/socket.rs) shared by several  *)
(* concurrent tasks: its ack correlator (ack_counter, ack_message), its    *)
(* disconnect handler slot, its message handlers, its registration in the  *)
(* namespace, the broadcasts built from it and the bounded emit queue of   *)
(* the engine.io socket it writes to.                                      *)
(*                                                                         *)
(* Every action is one step of a Socket method between two accesses to     *)
(* shared state (an atomic, a lock, the engine channel), so that the       *)
(* interleavings of tasks running methods of the same socket are the       *)
(* behaviours of the model.                                                *)
(***************************************************************************)
EXTENDS Integers, Sequences, FiniteSets, TLC

\* ------------------------------------------------------------------ bounds
\* capacity of the engine emit queue (config max_buffer_size)
MaxBuffer == 2
\* number of method calls made on the socket in one behaviour
MaxCalls == 4
\* number of frames the engine takes out of the emit queue
MaxDrain == 1
\* width of the ack counter in bits: the AtomicI64 of the source scaled down
\* so that the top of its range is within reach of a behaviour
CounterBits == 3
\* largest number of binary attachments of a packet
MaxBin == 2

\* ------------------------------------------------------------------ values
Tasks == {"t1", "t2"}
Handlers == {"h1", "h2"}
Rooms == {"r1"}
Events == {"e1", "e2"}
\* the rooms and the sockets of the namespace a broadcast selects from
BRooms == {"r1", "r2"}
AllSids == {"sid", "s2", "s3"}
None == "None"
Free == "Free"
Sid == "sid"

I64_MAX == 2 ^ (CounterBits - 1) - 1
I64_MIN == -(2 ^ (CounterBits - 1))
I64 == I64_MIN .. I64_MAX

\* reasons the engine layer closes a socket with (two of the six of the enum)
EIoDisconnectReason == {"TransportClose", "HeartbeatTimeout"}

\* From<EIoDisconnectReason> for DisconnectReason: one to one, same names
DisconnectReasonFrom(reason) == reason

VARIABLES
    queue,               \* esocket: frames in the engine emit queue, oldest first
    drained,             \* number of frames the engine has consumed
    ack_counter,         \* Socket.ack_counter
    ack_message,         \* Socket.ack_message: the ack-ids that hold a Sender
    alloc_log,           \* the ack-ids in the order send_with_ack allocated them
    outcome,             \* ack-id -> what its Receiver was given, in order
    disconnect_handler,  \* Socket.disconnect_handler: a handler or None
    dh_lock,             \* holder of the disconnect_handler mutex, or Free
    handler_calls,       \* the disconnect handler invocations, in order
    close_log,           \* the reasons of the close invocations, in order
    ns_sockets,          \* the sids registered in the namespace
    rooms,               \* the rooms of the namespace that hold the sid
    dropped,             \* the Socket value has been dropped
    calls,               \* number of method calls made so far
    pc,                  \* task -> where it is in the method it runs
    t_op,                \* task -> the method whose close it runs, or None
    last,                \* the method that returned last and what it returned
    t_ack,               \* task -> local `ack` of send_with_ack
    t_reason,            \* task -> parameter `reason` of close
    t_handler,           \* task -> local `handler` of close
    t_bin,               \* task -> local `bin_payloads` of send: frames still to emit
    message_handlers,    \* Socket.message_handlers: event -> handler or None
    on_log,              \* the registrations made with on, in order
    mh_calls,            \* the message handler invocations, in order
    mh_lock,             \* the tasks that hold the read lock of message_handlers
    members,             \* adapter: room -> the sids that joined it
    bcast                \* the last broadcast built from the socket and its recipients

engine_vars == <<queue, drained>>
ack_vars == <<ack_counter, ack_message, alloc_log, outcome>>
dh_vars == <<disconnect_handler, dh_lock, handler_calls, close_log>>
ns_vars == <<ns_sockets, rooms>>
local_vars == <<t_op, t_ack, t_reason, t_handler>>
mh_vars == <<message_handlers, on_log, mh_calls, mh_lock>>
bc_vars == <<members, bcast>>
vars == <<queue, drained, ack_counter, ack_message, alloc_log, outcome,
          disconnect_handler, dh_lock, handler_calls, close_log, ns_sockets,
          rooms, dropped, calls, pc, t_op, last, t_ack, t_reason, t_handler,
          t_bin, message_handlers, on_log, mh_calls, mh_lock, members, bcast>>

\* ------------------------------------------------------------------ helpers
\* engineioxide Socket::emit / emit_binary: try_send on the bounded channel
esocket_emit(q, msg) ==
    IF Len(q) < MaxBuffer
    THEN [res |-> "Ok", queue |-> Append(q, msg)]
    ELSE [res |-> "InternalChannelFull", queue |-> q]

\* Socket::send of a packet without binary payload: one text frame
send(q, packet) == esocket_emit(q, packet)

\* Packet::event(ns, event, data), Packet::disconnect(ns), set_ack_id(ack)
PacketEvent == <<"Event">>
PacketDisconnect == <<"Disconnect">>
set_ack_id(packet, ack) == Append(packet, ack)

\* two's complement wrap of the counter's width
WrapI64(n) == ((n - I64_MIN) % (2 ^ CounterBits)) + I64_MIN

\* AtomicI64::fetch_add(1): the stored value wraps around on overflow
fetch_add(c) == WrapI64(c + 1)

\* `prev + 1` on i64: a build with overflow checks panics at I64_MAX, a build
\* without them wraps; below I64_MAX both give prev + 1
CheckedBuilds(prev) == IF prev = I64_MAX THEN BOOLEAN ELSE {FALSE}

\* the AckStream of ack-id `ack` has ended with Timeout: it yields one item and
\* is exhausted (lines 286-287), its Receiver is polled no more
expired(o, ack) == \E i \in DOMAIN o[ack] : o[ack][i] = "Timeout"

\* oneshot Sender::send / a dropped Sender / the timeout: the waiter of ack-id
\* `ack` is given `what`, unless its stream has ended with Timeout
deliver(o, ack, what) ==
    IF expired(o, ack) THEN o ELSE [o EXCEPT ![ack] = Append(@, what)]

\* the method `name` returns `result` to task t
Done(t, name, result) ==
    /\ pc' = [pc EXCEPT ![t] = "idle"]
    /\ last' = [op |-> name, ret |-> result]

\* task t, which runs no method, calls one on the socket it still holds
CanCall(t) ==
    /\ pc[t] = "idle"
    /\ ~dropped
    /\ calls < MaxCalls
    /\ calls' = calls + 1

\* the ack-ids a client answers with: those allocated, and one that is not
AckInputs == {alloc_log[i] : i \in DOMAIN alloc_log} \cup {fetch_add(ack_counter)}

\* the ack-ids the counter can hand out within MaxCalls calls
AllocIds == {WrapI64(i) : i \in 1 .. MaxCalls}

Allocated(id) == \E i \in DOMAIN alloc_log : alloc_log[i] = id

\* ------------------------------------------------------------------ Init
InitSocket ==
    /\ queue = <<>>
    /\ drained = 0
    /\ ack_counter = 0
    /\ ack_message = {}
    /\ alloc_log = <<>>
    /\ outcome = [id \in I64 |-> <<>>]
    /\ disconnect_handler = None
    /\ dh_lock = Free
    /\ handler_calls = <<>>
    /\ close_log = <<>>
    /\ ns_sockets = {Sid}
    /\ dropped = FALSE
    /\ calls = 0
    /\ pc = [t \in Tasks |-> "idle"]
    /\ t_op = [t \in Tasks |-> None]
    /\ last = [op |-> None, ret |-> None]
    /\ t_ack = [t \in Tasks |-> 0]
    /\ t_reason = [t \in Tasks |-> None]
    /\ t_handler = [t \in Tasks |-> None]
    /\ t_bin = [t \in Tasks |-> <<>>]
    /\ message_handlers = [e \in Events |-> None]
    /\ on_log = <<>>
    /\ mh_calls = <<>>
    /\ mh_lock = {}
    /\ bcast = [op |-> None, rooms |-> {}, except |-> {}, delivered |-> {}]

\* Socket::new: the socket has joined no room
Init ==
    /\ InitSocket
    /\ rooms = {}
    /\ members = [r \in BRooms |-> {}]

\* ------------------------------------------------------------------ emit
\* Socket::emit, lines 269-274: what emit returns for the result of send
emit_result_swallowed(res) == "Ok"

emit_result(res) == res

\* Socket::emit: serialize, then send an Event packet
Emit(t) ==
    /\ CanCall(t)
    /\ \E serializable \in BOOLEAN :
          IF serializable
          THEN LET r == send(queue, PacketEvent)
               IN  /\ queue' = r.queue
                   /\ Done(t, "emit", emit_result(r.res))
          ELSE /\ queue' = queue
               /\ Done(t, "emit", "Serialize")
    /\ UNCHANGED <<drained, ack_vars, dh_vars, ns_vars, dropped, local_vars>>
    /\ UNCHANGED <<t_bin, mh_vars, bc_vars>>

\* ------------------------------------------------------------------ emit_with_ack
\* emit_with_ack, lines 328-335: when to_value fails send_with_ack is not
\* called and the counter stays as it is
allocate_first(c) == fetch_add(c)

not_allocated(c) == c

\* Socket::emit_with_ack then the head of send_with_ack: the channel is created
\* and the ack-id allocated with `ack_counter.fetch_add(1, SeqCst) + 1`
EmitWithAck(t) ==
    /\ CanCall(t)
    /\ \E serializable \in BOOLEAN :
          IF ~serializable
          THEN /\ Done(t, "emit_with_ack", "Serialize")
               /\ ack_counter' = not_allocated(ack_counter)
               /\ UNCHANGED <<alloc_log, t_ack>>
          ELSE \E checked \in CheckedBuilds(ack_counter) :
                  /\ ack_counter' = fetch_add(ack_counter)
                  /\ last' = last
                  /\ IF checked
                     THEN /\ pc' = [pc EXCEPT ![t] = "panicked"]
                          /\ UNCHANGED <<alloc_log, t_ack>>
                     ELSE /\ pc' = [pc EXCEPT ![t] = "swa_send"]
                          /\ alloc_log' = Append(alloc_log, WrapI64(ack_counter + 1))
                          /\ t_ack' = [t_ack EXCEPT ![t] = WrapI64(ack_counter + 1)]
    /\ UNCHANGED <<engine_vars, ack_message, outcome, dh_vars, ns_vars, dropped,
                   t_op, t_reason, t_handler>>
    /\ UNCHANGED <<t_bin, mh_vars, bc_vars>>

\* send_with_ack, line 594: the send error goes to the Receiver
send_error_lost(o, ack, e) == o

send_error(o, ack, e) == deliver(o, ack, e)

\* send_with_ack, lines 590-595: the waiter table when the send failed
register_on_error(m, ack) == m \cup {ack}

keep_on_error(m, ack) == m

\* send_with_ack, line 590: the packet stamped with the ack-id is sent
SwaSend(t) ==
    /\ pc[t] = "swa_send"
    /\ LET r == send(queue, set_ack_id(PacketEvent, t_ack[t]))
       IN  /\ queue' = r.queue
           /\ IF r.res = "Ok"
              THEN /\ pc' = [pc EXCEPT ![t] = "swa_insert"]
                   /\ UNCHANGED <<last, t_ack, outcome, ack_message>>
              ELSE /\ outcome' = send_error(outcome, t_ack[t], r.res)
                   /\ ack_message' = keep_on_error(ack_message, t_ack[t])
                   /\ t_ack' = [t_ack EXCEPT ![t] = 0]
                   /\ Done(t, "emit_with_ack", "AckStream")
    /\ UNCHANGED <<drained, ack_counter, alloc_log, dh_vars, ns_vars, dropped, calls,
                   t_op, t_reason, t_handler>>
    /\ UNCHANGED <<t_bin, mh_vars, bc_vars>>

\* send_with_ack, line 592: the Sender is stored under the ack-id
SwaInsert(t) ==
    /\ pc[t] = "swa_insert"
    /\ ack_message' = ack_message \cup {t_ack[t]}
    /\ t_ack' = [t_ack EXCEPT ![t] = 0]
    /\ Done(t, "emit_with_ack", "AckStream")
    /\ UNCHANGED <<engine_vars, ack_counter, alloc_log, outcome, dh_vars, ns_vars,
                   dropped, calls, t_op, t_reason, t_handler>>
    /\ UNCHANGED <<t_bin, mh_vars, bc_vars>>

\* recv_ack / recv_bin_ack, lines 684 and 695: HashMap::remove
recv_ack_get(m, ack) == m

recv_ack_remove(m, ack) == m \ {ack}

\* recv_ack / recv_bin_ack, lines 689 and 700: tx.send(Ok(res)).ok() turns the
\* result of the send into an Option that is dropped; `sent` is false when the
\* Receiver is gone
send_unwrap(sent) == IF sent THEN "Ok" ELSE "panicked"

send_ok(sent) == "Ok"

\* Socket::recv of EventAck / BinaryAck: recv_ack, recv_bin_ack
RecvAck(t, ack) ==
    /\ CanCall(t)
    /\ IF ack \in ack_message
       THEN /\ ack_message' = recv_ack_remove(ack_message, ack)
            /\ outcome' = deliver(outcome, ack, "Response")
            /\ Done(t, "recv_ack", send_ok(~expired(outcome, ack)))
       ELSE /\ UNCHANGED <<ack_message, outcome>>
            /\ Done(t, "recv_ack", "Ok")
    /\ UNCHANGED <<engine_vars, ack_counter, alloc_log, dh_vars, ns_vars, dropped,
                   local_vars>>
    /\ UNCHANGED <<t_bin, mh_vars, bc_vars>>

\* emit_with_ack, line 332: the timeout is armed on the Receiver alone,
\* AckInnerStream::send(rx, ack_timeout), once send_with_ack has returned. When
\* it fires before anything was received the waiter is given Timeout (line 300);
\* the timer has no access to ack_message, where the Sender stays.
Timeout(ack) ==
    /\ ack \in ack_message
    /\ outcome[ack] = <<>>
    /\ outcome' = deliver(outcome, ack, "Timeout")
    /\ UNCHANGED <<engine_vars, ack_counter, ack_message, alloc_log, dh_vars, ns_vars,
                   dropped, calls, pc, last, local_vars>>
    /\ UNCHANGED <<t_bin, mh_vars, bc_vars>>

\* the engine layer takes the oldest frame out of the emit queue
Drain ==
    /\ queue # <<>>
    /\ drained < MaxDrain
    /\ queue' = Tail(queue)
    /\ drained' = drained + 1
    /\ UNCHANGED <<ack_vars, dh_vars, ns_vars, dropped, calls, pc, last, local_vars>>
    /\ UNCHANGED <<t_bin, mh_vars, bc_vars>>

\* ------------------------------------------------------------------ disconnect handler
\* Socket::on_disconnect: Option::replace under the mutex
OnDisconnect(t, h) ==
    /\ CanCall(t)
    /\ dh_lock = Free
    /\ disconnect_handler' = h
    /\ Done(t, "on_disconnect", "Ok")
    /\ UNCHANGED <<engine_vars, ack_vars, dh_lock, handler_calls, close_log, ns_vars,
                   dropped, local_vars>>
    /\ UNCHANGED <<t_bin, mh_vars, bc_vars>>

\* Socket::close, line 603: Option::take under the mutex
take_handler(h) == None

\* Socket::close, line 603: the mutex is taken and the handler taken out of its
\* slot; the guard of the `if let` lives until the end of its block, so the
\* mutex stays held while the handler is called. The closes of a socket are
\* ordered by this access to the slot.
CloseTake(t, name, reason) ==
    /\ dh_lock = Free
    /\ close_log' = Append(close_log, reason)
    /\ disconnect_handler' = take_handler(disconnect_handler)
    /\ t_op' = [t_op EXCEPT ![t] = name]
    /\ last' = last
    /\ IF disconnect_handler # None
       THEN /\ dh_lock' = t
            /\ pc' = [pc EXCEPT ![t] = "close_call"]
            /\ t_handler' = [t_handler EXCEPT ![t] = disconnect_handler]
            /\ t_reason' = [t_reason EXCEPT ![t] = reason]
       ELSE /\ dh_lock' = Free
            /\ pc' = [pc EXCEPT ![t] = "close_remove"]
            /\ UNCHANGED <<t_handler, t_reason>>

\* Socket::close called by the client with the reason of the engine layer
Close(t, reason) ==
    /\ CanCall(t)
    /\ CloseTake(t, "close", DisconnectReasonFrom(reason))
    /\ UNCHANGED <<engine_vars, ack_vars, handler_calls, ns_vars, dropped, t_ack>>
    /\ UNCHANGED <<t_bin, mh_vars, bc_vars>>

\* Socket::recv of a Disconnect packet, lines 618-620
RecvDisconnect(t) ==
    /\ CanCall(t)
    /\ CloseTake(t, "recv_disconnect", "ClientNSDisconnect")
    /\ UNCHANGED <<engine_vars, ack_vars, handler_calls, ns_vars, dropped, t_ack>>
    /\ UNCHANGED <<t_bin, mh_vars, bc_vars>>

\* Socket::close, line 604: handler.call(self.clone(), reason); the mutex is
\* released at the end of the `if let` block
CloseCall(t) ==
    /\ pc[t] = "close_call"
    /\ handler_calls' = Append(handler_calls,
                               [handler |-> t_handler[t], reason |-> t_reason[t]])
    /\ dh_lock' = Free
    /\ pc' = [pc EXCEPT ![t] = "close_remove"]
    /\ t_handler' = [t_handler EXCEPT ![t] = None]
    /\ t_reason' = [t_reason EXCEPT ![t] = None]
    /\ UNCHANGED <<engine_vars, ack_vars, disconnect_handler, close_log, ns_vars,
                   dropped, calls, last, t_op, t_ack>>
    /\ UNCHANGED <<t_bin, mh_vars, bc_vars>>

\* Namespace::remove_socket (spec 3 and 4.4): the sid leaves the registry and,
\* through the adapter's del_all, every room
remove_socket(sockets, sid) == sockets \ {sid}
del_all(rs, sid) == {}

\* Socket::close, line 607: self.ns.remove_socket(self.id)
CloseRemove(t) ==
    /\ pc[t] = "close_remove"
    /\ ns_sockets' = remove_socket(ns_sockets, Sid)
    /\ rooms' = del_all(rooms, Sid)
    /\ Done(t, t_op[t], "Ok")
    /\ t_op' = [t_op EXCEPT ![t] = None]
    /\ UNCHANGED <<engine_vars, ack_vars, dh_vars, dropped, calls, t_ack, t_reason, t_handler>>
    /\ UNCHANGED <<t_bin, mh_vars, bc_vars>>

\* Socket::disconnect, lines 539-544: the Disconnect packet is sent; when the
\* queue is full the method returns before close
Disconnect(t) ==
    /\ CanCall(t)
    /\ LET r == send(queue, PacketDisconnect)
       IN  /\ queue' = r.queue
           /\ IF r.res = "InternalChannelFull"
              THEN Done(t, "disconnect", "InternalChannelFull")
              ELSE /\ pc' = [pc EXCEPT ![t] = "disc_close"]
                   /\ last' = last
    /\ UNCHANGED <<drained, ack_vars, dh_vars, ns_vars, dropped, local_vars>>
    /\ UNCHANGED <<t_bin, mh_vars, bc_vars>>

\* Socket::disconnect, line 546: self.close(ServerNSDisconnect)
DisconnectClose(t) ==
    /\ pc[t] = "disc_close"
    /\ CloseTake(t, "disconnect", "ServerNSDisconnect")
    /\ UNCHANGED <<engine_vars, ack_vars, handler_calls, ns_vars, dropped, calls,
                   t_ack>>
    /\ UNCHANGED <<t_bin, mh_vars, bc_vars>>

\* ------------------------------------------------------------------ rooms
\* Adapter::add_all / Adapter::del of the local adapter (spec 4.2): idempotent
add_all(rs, room) == rs \cup {room}
del(rs, room) == rs \ {room}

\* Socket::join: self.ns.adapter.add_all(self.id, rooms)
Join(t, room) ==
    /\ CanCall(t)
    /\ rooms' = add_all(rooms, room)
    /\ Done(t, "join", "Ok")
    /\ UNCHANGED <<engine_vars, ack_vars, dh_vars, ns_sockets, dropped, local_vars>>
    /\ UNCHANGED <<t_bin, mh_vars, bc_vars>>

\* Socket::leave: self.ns.adapter.del(self.id, rooms)
Leave(t, room) ==
    /\ CanCall(t)
    /\ rooms' = del(rooms, room)
    /\ Done(t, "leave", "Ok")
    /\ UNCHANGED <<engine_vars, ack_vars, dh_vars, ns_sockets, dropped, local_vars>>
    /\ UNCHANGED <<t_bin, mh_vars, bc_vars>>

\* ------------------------------------------------------------------ send
\* Socket::send, lines 567-572: the attachments taken out of a binary packet,
\* in their order; the bytes of attachment i of the packet of call n of task t
\* are written <<"Bin", t, n, i>>
bin_payloads_rev(t, n, k) == [i \in 1 .. k |-> <<"Bin", t, n, k + 1 - i>>]

bin_payloads(t, n, k) == [i \in 1 .. k |-> <<"Bin", t, n, i>>]

\* Socket::send, lines 575 and 578: `?` returns the error of the engine socket
send_result_ignored(res) == "Ok"

send_result(res) == res

\* Socket::send, lines 567-575, called by emit or by Operators::emit with an
\* Event packet (k = 0) or a BinaryEvent packet with k attachments whose data
\* names the call: the header is emitted as one text frame
Send(t, k) ==
    /\ CanCall(t)
    /\ LET r == esocket_emit(queue, <<IF k = 0 THEN "Event" ELSE "BinaryEvent",
                                      t, calls + 1, k>>)
       IN  /\ queue' = r.queue
           /\ IF r.res = "Ok" /\ k > 0
              THEN /\ pc' = [pc EXCEPT ![t] = "send_bin"]
                   /\ t_bin' = [t_bin EXCEPT ![t] = bin_payloads(t, calls + 1, k)]
                   /\ last' = last
              ELSE /\ Done(t, "send", send_result(r.res))
                   /\ t_bin' = t_bin
    /\ UNCHANGED <<drained, ack_vars, dh_vars, ns_vars, dropped, local_vars,
                   mh_vars, bc_vars>>

\* Socket::send, lines 577-579: one turn of the loop over bin_payloads
SendBin(t) ==
    /\ pc[t] = "send_bin"
    /\ LET r == esocket_emit(queue, Head(t_bin[t]))
       IN  /\ queue' = r.queue
           /\ IF r.res = "Ok" /\ Len(t_bin[t]) > 1
              THEN /\ t_bin' = [t_bin EXCEPT ![t] = Tail(@)]
                   /\ UNCHANGED <<pc, last>>
              ELSE /\ Done(t, "send", send_result(r.res))
                   /\ t_bin' = [t_bin EXCEPT ![t] = <<>>]
    /\ UNCHANGED <<drained, ack_vars, dh_vars, ns_vars, dropped, calls, local_vars,
                   mh_vars, bc_vars>>

\* ------------------------------------------------------------------ message handlers
\* Socket::on, line 209: HashMap::insert replaces the handler of the event
insert_if_absent(m, e, h) == IF m[e] = None THEN [m EXCEPT ![e] = h] ELSE m

insert(m, e, h) == [m EXCEPT ![e] = h]

\* Socket::on: the handler is stored under the write lock, which the caller
\* gets once no task holds the read lock
On(t, e, h) ==
    /\ CanCall(t)
    /\ mh_lock = {}
    /\ message_handlers' = insert(message_handlers, e, h)
    /\ on_log' = Append(on_log, <<e, h>>)
    /\ Done(t, "on", "Ok")
    /\ UNCHANGED <<engine_vars, ack_vars, dh_vars, ns_vars, dropped, local_vars,
                   t_bin, mh_calls, mh_lock, bc_vars>>

\* the Event and BinaryEvent packets a client sends: PacketData::Event(e, data,
\* ack) and PacketData::BinaryEvent(e, BinaryPacket {data, bin}, ack); an
\* Option is written as a sequence of at most one element
InPackets ==
    {[kind |-> "Event", e |-> e, data |-> "d1", bin |-> <<>>, ack |-> a]
        : e \in Events, a \in {<<>>, <<1>>}}
    \cup
    {[kind |-> "BinaryEvent", e |-> e, data |-> "d2", bin |-> <<"b1", "b2">>, ack |-> a]
        : e \in Events, a \in {<<>>, <<1>>}}

\* recv_event / recv_bin_event, lines 668 and 680: Ok(()) whether or not a
\* handler was found
recv_event_strict(found) == IF found THEN "Ok" ELSE "UnknownEvent"

recv_event_result(found) == "Ok"

\* Socket::recv of Event / BinaryEvent: recv_event, recv_bin_event, lines 665-666
\* and 677-678: the handler of the event is looked up under the read lock and
\* called; the guard of the `if let` lives until the end of its block, so the
\* read lock stays held while the handler runs. Without a handler the method
\* returns at once.
RecvEvent(t, p) ==
    /\ CanCall(t)
    /\ IF message_handlers[p.e] # None
       THEN /\ mh_calls' = Append(mh_calls,
                   [handler |-> message_handlers[p.e], data |-> p.data,
                    bin |-> IF p.kind = "Event" THEN <<>> ELSE p.bin, ack |-> p.ack])
            /\ mh_lock' = mh_lock \cup {t}
            /\ pc' = [pc EXCEPT ![t] = "mh_call"]
            /\ last' = last
       ELSE /\ UNCHANGED <<mh_calls, mh_lock>>
            /\ Done(t, "recv_event", recv_event_result(FALSE))
    /\ UNCHANGED <<engine_vars, ack_vars, dh_vars, ns_vars, dropped, local_vars,
                   t_bin, message_handlers, on_log, bc_vars>>

\* a message handler that runs in task t calls socket.on(e, h), line 207:
\* write() on the RwLock whose read lock the task holds never gets the lock;
\* the task waits for ever or, as RwLock::write may, panics
HandlerOn(t, e, h) ==
    /\ pc[t] = "mh_call"
    /\ \E stuck \in {"on_wait", "panicked"} : pc' = [pc EXCEPT ![t] = stuck]
    /\ UNCHANGED <<engine_vars, ack_vars, dh_vars, ns_vars, dropped, calls, last,
                   local_vars, t_bin, mh_vars, bc_vars>>

\* the message handler returns: the read lock is released at the end of the
\* `if let` block, recv_event returns Ok(())
HandlerReturn(t) ==
    /\ pc[t] = "mh_call"
    /\ mh_lock' = mh_lock \ {t}
    /\ Done(t, "recv_event", recv_event_result(TRUE))
    /\ UNCHANGED <<engine_vars, ack_vars, dh_vars, ns_vars, dropped, calls, local_vars,
                   t_bin, message_handlers, on_log, mh_calls, bc_vars>>

\* Socket::recv of another variant (Connect, ConnectError), line 621:
\* unreachable!() panics
RecvOther(t) ==
    /\ CanCall(t)
    /\ \E variant \in {"Connect", "ConnectError"} :
          pc' = [pc EXCEPT ![t] = "panicked"]
    /\ UNCHANGED <<engine_vars, ack_vars, dh_vars, ns_vars, dropped, last, local_vars,
                   t_bin, mh_vars, bc_vars>>

\* ------------------------------------------------------------------ operators
\* Operators::new(ns, sid) and its builder methods (spec 4.5): to implies
\* exclude_self, within does not, broadcast does, except adds exclude rooms
Operators_new(sid) ==
    [sid |-> sid, rooms |-> {}, except |-> {}, exclude_self |-> FALSE]
Operators_to(opts, rs) == [opts EXCEPT !.rooms = @ \cup rs, !.exclude_self = TRUE]
Operators_within(opts, rs) == [opts EXCEPT !.rooms = @ \cup rs]
Operators_broadcast(opts) == [opts EXCEPT !.exclude_self = TRUE]
Operators_except(opts, rs) == [opts EXCEPT !.except = @ \cup rs]

\* Socket::to, line 401: Operators::new(self.ns.clone(), Some(self.id)).to(rooms)
to_unseeded(rs) == Operators_to(Operators_new(None), rs)

to(rs) == Operators_to(Operators_new(Sid), rs)

\* Socket::within, line 425, and Socket::broadcast, line 532
within(rs) == Operators_within(Operators_new(Sid), rs)
broadcast == Operators_broadcast(Operators_new(Sid))

\* the sids that are in one of the rooms rs
InRooms(m, rs) == UNION {m[r] : r \in rs}

\* the selection of the adapter (spec 4.2):
\* S = (U rooms + (rooms = {} ? all_sockets : {})) - (U except) - (exclude_self ? {self} : {})
apply_opts(opts, m) ==
    ((InRooms(m, opts.rooms) \cup (IF opts.rooms = {} THEN AllSids ELSE {}))
        \ InRooms(m, opts.except))
        \ (IF opts.exclude_self THEN {opts.sid} ELSE {})

\* the terminal emit of the Operators value `opts` built by method `name`
Broadcasts(name, opts) ==
    /\ bcast' = [op |-> name, rooms |-> opts.rooms, except |-> opts.except,
                 delivered |-> apply_opts(opts, members)]
    /\ UNCHANGED <<engine_vars, ack_vars, dh_vars, ns_vars, dropped, calls, pc, last,
                   local_vars, t_bin, mh_vars, members>>

\* socket.to(rs).except(ex).emit(..), socket.within(rs).except(ex).emit(..),
\* socket.broadcast().except(ex).emit(..)
To(rs, ex) == Broadcasts("to", Operators_except(to(rs), ex))
Within(rs, ex) == Broadcasts("within", Operators_except(within(rs), ex))
Broadcast(ex) == Broadcasts("broadcast", Operators_except(broadcast, ex))

\* ------------------------------------------------------------------ drop
\* The last Arc<Socket> goes away once the namespace has let go of the socket
\* and no task runs one of its methods: the fields are dropped, and a Receiver
\* whose Sender is dropped with the ack_message map learns the socket is closed
DropSocket ==
    /\ ~dropped
    /\ Sid \notin ns_sockets
    /\ \A t \in Tasks : pc[t] \in {"idle", "panicked"}
    /\ dropped' = TRUE
    /\ outcome' = [id \in I64 |->
                     IF id \in ack_message
                     THEN deliver(outcome, id, "SocketClosed")[id]
                     ELSE outcome[id]]
    /\ ack_message' = {}
    /\ UNCHANGED <<calls, engine_vars, ack_counter, alloc_log, dh_vars, ns_vars, pc, last,
                   local_vars>>
    /\ UNCHANGED <<t_bin, mh_vars, bc_vars>>

\* ------------------------------------------------------------------ Next
Next ==
    \/ \E t \in Tasks : Emit(t)
    \/ \E t \in Tasks : EmitWithAck(t)
    \/ \E t \in Tasks : SwaSend(t)
    \/ \E t \in Tasks : SwaInsert(t)
    \/ \E t \in Tasks, ack \in AckInputs : RecvAck(t, ack)
    \/ \E ack \in I64 : Timeout(ack)
    \/ Drain
    \/ \E t \in Tasks, h \in Handlers : OnDisconnect(t, h)
    \/ \E t \in Tasks, reason \in EIoDisconnectReason : Close(t, reason)
    \/ \E t \in Tasks : RecvDisconnect(t)
    \/ \E t \in Tasks : CloseCall(t)
    \/ \E t \in Tasks : CloseRemove(t)
    \/ \E t \in Tasks : Disconnect(t)
    \/ \E t \in Tasks : DisconnectClose(t)
    \/ \E t \in Tasks, room \in Rooms : Join(t, room)
    \/ \E t \in Tasks, room \in Rooms : Leave(t, room)
    \/ DropSocket

Spec == Init /\ [][Next]_vars

\* The methods and steps that read or write the ack correlator, the emit queue
\* its sends depend on, and the life of the socket; the ones left out
\* (on_disconnect, disconnect, recv of Disconnect, join, leave) leave
\* ack_counter, ack_message and the waiters alone.
NextAck ==
    \/ \E t \in Tasks : Emit(t)
    \/ \E t \in Tasks : EmitWithAck(t)
    \/ \E t \in Tasks : SwaSend(t)
    \/ \E t \in Tasks : SwaInsert(t)
    \/ \E t \in Tasks, ack \in AckInputs : RecvAck(t, ack)
    \/ \E ack \in I64 : Timeout(ack)
    \/ Drain
    \/ \E t \in Tasks, reason \in EIoDisconnectReason : Close(t, reason)
    \/ \E t \in Tasks : CloseRemove(t)
    \/ DropSocket

\* Socket::send called by several tasks with packets with and without binary
\* attachments, and the engine taking frames out of the queue
NextSend ==
    \/ \E t \in Tasks, k \in 0 .. MaxBin : Send(t, k)
    \/ \E t \in Tasks : SendBin(t)
    \/ Drain

SendSpec == Init /\ [][NextSend]_vars

\* the inbound dispatch of events and the registration of their handlers
NextRecv ==
    \/ \E t \in Tasks, e \in Events, h \in Handlers : On(t, e, h)
    \/ \E t \in Tasks, p \in InPackets : RecvEvent(t, p)
    \/ \E t \in Tasks, e \in Events, h \in Handlers : HandlerOn(t, e, h)
    \/ \E t \in Tasks : HandlerReturn(t)
    \/ \E t \in Tasks : RecvOther(t)

RecvSpec == Init /\ [][NextRecv]_vars

\* a namespace whose sockets have joined any of the rooms, the socket included
InitBroadcast ==
    /\ InitSocket
    /\ members \in [BRooms -> SUBSET AllSids]
    /\ rooms = {r \in Rooms : Sid \in members[r]}

NextBroadcast ==
    \/ \E rs \in SUBSET BRooms, ex \in SUBSET BRooms : To(rs, ex)
    \/ \E rs \in SUBSET BRooms, ex \in SUBSET BRooms : Within(rs, ex)
    \/ \E ex \in SUBSET BRooms : Broadcast(ex)

BroadcastSpec == InitBroadcast /\ [][NextBroadcast]_vars

AckSpec == Init /\ [][NextAck]_vars

\* a running send_with_ack goes on to its next step (it is synchronous), and an
\* armed ack timeout fires
FairSpec ==
    /\ AckSpec
    /\ \A t \in Tasks : WF_vars(SwaSend(t)) /\ WF_vars(SwaInsert(t))
    /\ \A ack \in I64 : WF_vars(Timeout(ack))

\* ------------------------------------------------------------------ claims
\* C1: over every interleaving of send, recv of an ack, timeout, close and drop,
\* the waiter of an ack-id is given at most one outcome, never two.
C1_AtMostOneOutcome == \A id \in I64 : Len(outcome[id]) <= 1

\* one waiter got its response, another timed out, and the socket was closed
C1_Witness ==
    /\ Sid \notin ns_sockets
    /\ \E a, b \in I64 : outcome[a] = <<"Response">> /\ outcome[b] = <<"Timeout">>

\* C2: every allocated ack-id is eventually resolved, when running methods go on
\* and armed timeouts fire, whether or not the client answers or the send worked.
C2_EventuallyResolved == \A id \in AllocIds : Allocated(id) ~> (outcome[id] # <<>>)

\* a request nobody answered was resolved by its timeout, another by its failed send
C2_Witness ==
    \E a, b \in I64 :
        /\ Allocated(a) /\ outcome[a] = <<"Timeout">>
        /\ Allocated(b) /\ outcome[b] = <<"InternalChannelFull">>

\* C3: at most one disconnect handler invocation ever occurs, and it carries the
\* reason of the first close.
C3_OneInvocationFirstReason ==
    /\ Len(handler_calls) <= 1
    /\ handler_calls # <<>> => handler_calls[1].reason = close_log[1]

\* C4: when close returns, every waiter that was registered and not yet resolved
\* has left the waiter table and was given SocketClosed.
C4_CloseDrainsWaiters ==
    [][\A t \in Tasks :
          CloseRemove(t) =>
              /\ ack_message' = {}
              /\ \A id \in ack_message : outcome'[id] = <<"SocketClosed">>]_vars

\* C5: in every state after a close of the socket the ack waiter table is empty.
C5_NoWaiterAfterClose == Sid \notin ns_sockets => ack_message = {}

\* C6: a disconnect() that returned InternalChannelFull has still closed the
\* socket: the handler was taken and invoked, the sid left the namespace.
C6_DisconnectFullStillCloses ==
    last = [op |-> "disconnect", ret |-> "InternalChannelFull"] =>
        /\ Sid \notin ns_sockets
        /\ disconnect_handler = None

\* C7: a disconnect() called after a disconnect() that returned Ok appends
\* nothing to the emit queue, invokes no handler and changes no membership.
C7_SecondDisconnectNoop ==
    [][\A t \in Tasks :
          (last = [op |-> "disconnect", ret |-> "Ok"] /\ Disconnect(t)) =>
              UNCHANGED <<queue, handler_calls, ns_sockets, rooms>>]_vars

\* C8: the ack-ids of a socket start at 1 and are strictly increasing, and the
\* counter is never decremented or reset.
C8_AckIdsIncrease ==
    [][/\ ack_counter' >= ack_counter
       /\ alloc_log' # <<>> => alloc_log'[1] = 1
       /\ \A i, j \in DOMAIN alloc_log' : i < j => alloc_log'[i] < alloc_log'[j]]_vars

\* C9: emit never waits; it returns Ok and appends its packet while the queue
\* holds fewer than MaxBuffer frames, and returns InternalChannelFull and leaves
\* the queue as it was once the queue is full, so that without a consumer
\* exactly the first MaxBuffer frames are accepted.
C9_EmitFullQueue ==
    [][\A t \in Tasks :
          /\ (pc[t] = "idle" /\ ~dropped /\ calls < MaxCalls) => ENABLED Emit(t)
          /\ (Emit(t) /\ last'.ret # "Serialize") =>
                IF Len(queue) < MaxBuffer
                THEN last'.ret = "Ok" /\ queue' = Append(queue, PacketEvent)
                ELSE last'.ret = "InternalChannelFull" /\ queue' = queue]_vars

\* the queue was filled by MaxBuffer emits, nothing was consumed, and a further
\* emit was refused
C9_Witness ==
    /\ last = [op |-> "emit", ret |-> "InternalChannelFull"]
    /\ drained = 0
    /\ queue = [i \in 1 .. MaxBuffer |-> PacketEvent]

\* C10: an emit_with_ack whose send finds the queue full resolves its handle
\* with InternalChannelFull, and its ack-id is never in the waiter table.
C10_FullQueueNoWaiter ==
    [][/\ \A t \in Tasks :
             (SwaSend(t) /\ Len(queue) >= MaxBuffer) =>
                 /\ outcome'[t_ack[t]] = <<"InternalChannelFull">>
                 /\ t_ack[t] \notin ack_message'
       /\ \A id \in I64 :
             (outcome'[id] # <<>> /\ outcome'[id][1] = "InternalChannelFull") =>
                 /\ outcome'[id] = <<"InternalChannelFull">>
                 /\ id \notin ack_message']_vars

\* a request was refused by the full queue and its timeout never had a slot
C10_Witness ==
    \E id \in I64 :
        /\ outcome[id] = <<"InternalChannelFull">>
        /\ Len(queue) = MaxBuffer
        /\ last = [op |-> "emit_with_ack", ret |-> "AckStream"]

\* C11: a timeout that fires before the client responds gives the waiter
\* Timeout; a response for that ack-id that arrives afterwards is discarded:
\* recv returns Ok, no outcome changes and no handler is invoked.
C11_LateResponseDiscarded ==
    [][/\ \A ack \in I64 : Timeout(ack) => outcome'[ack] = <<"Timeout">>
       /\ \A t \in Tasks, ack \in I64 :
             (RecvAck(t, ack) /\ outcome[ack] = <<"Timeout">>) =>
                 /\ last' = [op |-> "recv_ack", ret |-> "Ok"]
                 /\ outcome' = outcome
                 /\ handler_calls' = handler_calls
                 /\ mh_calls' = mh_calls]_vars

\* the response to a timed out request has been received: recv_ack returned and
\* took the Sender out of the table, the waiter still has Timeout alone
C11_Witness ==
    /\ ~dropped
    /\ last = [op |-> "recv_ack", ret |-> "Ok"]
    /\ \E a \in I64 :
          Allocated(a) /\ a \notin ack_message /\ outcome[a] = <<"Timeout">>

\* C12: no task holds the lock of the disconnect handler slot (or of the ack
\* waiter table) while it invokes a user handler: close has released the lock
\* of the slot when it calls the disconnect handler.
C12_NoLockAcrossHandler == \A t \in Tasks : pc[t] = "close_call" => dh_lock # t

\* the frames of task t in the queue q, in the order of q
TaskFrames(q, t) == SelectSeq(q, LAMBDA f : f[2] = t)

\* C13: the packets one task emits on the socket are in the emit queue in
\* program order, whatever the other tasks emit: a send that returns Ok has
\* put its last frame at the end of the queue, and the frames of one task in
\* the queue are in the order of its calls.
C13_ProgramOrder ==
    [][/\ \A i, j \in DOMAIN queue' :
             (i < j /\ queue'[i][2] = queue'[j][2]) => queue'[i][3] <= queue'[j][3]
       /\ \A t \in Tasks :
             /\ (\E k \in 0 .. MaxBin : Send(t, k) /\ pc'[t] = "idle" /\ last'.ret = "Ok")
                   => /\ queue' # <<>>
                      /\ queue'[Len(queue')][2] = t
                      /\ queue'[Len(queue')][3] = calls'
             /\ (SendBin(t) /\ pc'[t] = "idle" /\ last'.ret = "Ok")
                   => /\ queue' # <<>>
                      /\ queue'[Len(queue')][2] = t
                      /\ queue'[Len(queue')][3] = Head(t_bin[t])[3]]_vars

\* two packets of one task are in the queue in the order of its calls while
\* another task is in the middle of a send of its own
C13_Witness ==
    \E t, u \in Tasks :
        /\ t # u
        /\ pc[u] = "send_bin"
        /\ last = [op |-> "send", ret |-> "Ok"]
        /\ Len(queue) = 2
        /\ queue[1][2] = t /\ queue[2][2] = t
        /\ queue[1][3] < queue[2][3]

\* C14: a send of a binary packet with k attachments that returns Ok has put
\* in the queue its header followed by its k binary frames in their order,
\* with no frame of another send of the same task in between.
C14_BinaryFramesFollowHeader ==
    [][\A t \in Tasks :
          (SendBin(t) /\ pc'[t] = "idle" /\ last'.ret = "Ok") =>
              LET proj == TaskFrames(queue', t)
                  m == Len(proj)
                  n == Head(t_bin[t])[3]
                  k == proj[m][4]
              IN  /\ \A i \in 1 .. k :
                        m - k + i >= 1 => proj[m - k + i] = <<"Bin", t, n, i>>
                  /\ m - k >= 1 => proj[m - k] = <<"BinaryEvent", t, n, k>>]_vars

\* a send with two attachments has returned Ok and its two binary frames are
\* in the queue, in their order
C14_Witness ==
    /\ last = [op |-> "send", ret |-> "Ok"]
    /\ \E t \in Tasks, n \in 1 .. MaxCalls :
          queue = <<<<"Bin", t, n, 1>>, <<"Bin", t, n, 2>>>>

\* C15: once close has returned, the sid is neither in the registry of the
\* namespace nor a member of a room, in every later state: a sid that is not
\* registered is a member of no room.
C15_ClosedInNoRoom == Sid \notin ns_sockets => rooms = {}

\* C16: on a socket that was closed and is still referenced, a method that is
\* called returns a failure and does not panic, and join adds the sid to no room.
C16_DanglingOpsFail ==
    [][(Sid \notin ns_sockets /\ calls' = calls + 1) =>
          /\ \A t \in Tasks : pc'[t] = "panicked" => pc[t] = "panicked"
          /\ pc' = pc => last'.ret \notin {"Ok", "AckStream"}
          /\ rooms' \subseteq rooms]_vars

\* C17: whatever the rooms the sockets are in, a broadcast built with to(rooms)
\* or broadcast() is not delivered to the originating sid, one built with
\* within(rooms) is delivered to it when it is in one of the rooms and in no
\* except room, and no member of an except room is a recipient.
C17_ExcludeSelf ==
    /\ bcast.op \in {"to", "broadcast"} => Sid \notin bcast.delivered
    /\ (/\ bcast.op = "within"
        /\ Sid \in InRooms(members, bcast.rooms)
        /\ Sid \notin InRooms(members, bcast.except)) => Sid \in bcast.delivered
    /\ bcast.delivered \cap InRooms(members, bcast.except) = {}

\* A in r1, B in r1 and r2, C in r2: within(r1) from A was delivered to A and B
C17_Witness ==
    /\ members = [r \in BRooms |-> IF r = "r1" THEN {"sid", "s2"} ELSE {"s2", "s3"}]
    /\ bcast = [op |-> "within", rooms |-> {"r1"}, except |-> {},
                delivered |-> {"sid", "s2"}]

\* C18: an inbound Event or BinaryEvent named e invokes exactly one handler,
\* the one most recently registered for e, once, with the data, the binary
\* attachments (none for Event) and the ack-id of the packet; a handler
\* registered earlier for e is invoked no more.
C18_LastHandlerOnce ==
    [][\A t \in Tasks, p \in InPackets :
          (RecvEvent(t, p) /\ \E i \in DOMAIN on_log : on_log[i][1] = p.e) =>
              LET i == CHOOSE i \in DOMAIN on_log :
                           /\ on_log[i][1] = p.e
                           /\ \A j \in DOMAIN on_log : on_log[j][1] = p.e => j <= i
              IN  mh_calls' = Append(mh_calls,
                      [handler |-> on_log[i][2], data |-> p.data, bin |-> p.bin,
                       ack |-> p.ack])]_vars

\* h1 then h2 were registered for e1: the event before the second registration
\* invoked h1, the binary event after it invoked h2 alone
C18_Witness ==
    /\ on_log = <<<<"e1", "h1">>, <<"e1", "h2">>>>
    /\ Len(mh_calls) = 2
    /\ mh_calls[1].handler = "h1"
    /\ mh_calls[2] = [handler |-> "h2", data |-> "d2", bin |-> <<"b1", "b2">>,
                      ack |-> <<1>>]

\* C19: the ack waiter table holds only ack-ids whose waiter is still pending:
\* once a waiter was resolved by its timeout (or its handle was dropped) the
\* table has no entry for its ack-id.
C19_TableHoldsPendingOnly == \A id \in ack_message : outcome[id] = <<>>

\* C20: recv of a packet variant other than Event, BinaryEvent, EventAck,
\* BinaryAck and Disconnect returns a protocol error to the dispatching task,
\* which goes on.
C20_OtherVariantIsError ==
    [][\A t \in Tasks :
          RecvOther(t) =>
              /\ pc'[t] = "idle"
              /\ last' = [op |-> "recv", ret |-> "ProtocolError"]]_vars

\* C21: an inbound Event or BinaryEvent whose name has no registered handler
\* is a no-op: recv returns Ok, no handler is invoked, and the handler table,
\* the ack waiter table, the ack counter, the emit queue and the rooms are as
\* they were.
C21_UnknownEventNoop ==
    [][\A t \in Tasks, p \in InPackets :
          (RecvEvent(t, p) /\ \A i \in DOMAIN on_log : on_log[i][1] # p.e) =>
              /\ pc'[t] = "idle"
              /\ last' = [op |-> "recv_event", ret |-> "Ok"]
              /\ UNCHANGED <<mh_calls, handler_calls, message_handlers, ack_message,
                             ack_counter, queue, rooms, members>>]_vars

\* e1 has a handler, e2 has none; an event was received, recv returned Ok and
\* no handler was invoked
C21_Witness ==
    /\ \E h \in Handlers : on_log = <<<<"e1", h>>>>
    /\ last = [op |-> "recv_event", ret |-> "Ok"]
    /\ mh_calls = <<>>

\* C26: the read lock of the handler table is not held while a message handler
\* runs, so that a handler that calls on(event, handler) completes: no task
\* waits for the write lock while it holds the read lock.
C26_NoReadLockAcrossHandler ==
    \A t \in Tasks : pc[t] \in {"mh_call", "on_wait"} => t \notin mh_lock

\* C22: an emit or emit_with_ack whose data cannot be serialized reports
\* Serialize and does nothing else: the emit queue, the ack counter and the
\* waiter table are as they were.
C22_SerializeNoEffect ==
    [][\A t \in Tasks :
          ((Emit(t) \/ (EmitWithAck(t) /\ pc'[t] = "idle")) /\ last'.ret = "Serialize")
              => UNCHANGED <<queue, ack_counter, ack_message, alloc_log, outcome>>]_vars

\* after an emit_with_ack that registered ack-id 1, an emit_with_ack of data
\* that cannot be serialized has reported Serialize: still one id, one frame
C22_Witness ==
    /\ last = [op |-> "emit_with_ack", ret |-> "Serialize"]
    /\ ack_counter = 1
    /\ ack_message = {1}
    /\ queue = <<<<"Event", 1>>>>

\* C23: when the send of the request with ack-id k succeeded and the response
\* to k is received before the timeout has fired and before the socket is
\* closed, the waiter is given the response, also when the response is
\* dispatched between the send and the registration of the waiter.
C23_ResponseReachesWaiter ==
    [][\A t \in Tasks, ack \in I64 :
          (/\ RecvAck(t, ack)
           /\ \/ ack \in ack_message
              \/ \E u \in Tasks : pc[u] = "swa_insert" /\ t_ack[u] = ack
           /\ outcome[ack] = <<>>
           /\ Sid \in ns_sockets) => outcome'[ack] = <<"Response">>]_vars

\* C24: the frames of the packets two tasks send concurrently are not
\* interleaved in the engine emit queue: the frame right before an attachment
\* is the header or an earlier attachment of the same packet, never a frame of
\* the other task's packet.
C24_FramesNotInterleaved ==
    \A i \in 2 .. Len(queue) :
        queue[i][1] = "Bin" =>
            /\ queue[i - 1][2] = queue[i][2]
            /\ queue[i - 1][3] = queue[i][3]

\* C25: a send that returns a failure leaves the engine emit queue unchanged:
\* a failure on the header enqueues nothing, and after a failure on an
\* attachment the queue holds no frame of that packet, so that either the
\* header and all k attachments are enqueued or none of them is.
C25_FailedSendLeavesQueue ==
    [][\A t \in Tasks :
          /\ (\E k \in 0 .. MaxBin :
                  Send(t, k) /\ pc'[t] = "idle" /\ last'.ret # "Ok") => queue' = queue
          /\ (SendBin(t) /\ pc'[t] = "idle" /\ last'.ret # "Ok") =>
                 \A i \in DOMAIN queue' :
                     ~(queue'[i][2] = t /\ queue'[i][3] = Head(t_bin[t])[3])]_vars

====
